---- MODULE Spec2Model ----
(***************************************************************************)
(* Model of the Kurento health monitor (src/server.js, the version with    *)
(* the connection health check, lines 244-604).                            *)
(*                                                                         *)
(* One step of the model is one scheduler turn of the Node.js event loop:  *)
(* a callback (connect result, timer, client event) together with the      *)
(* promise continuations it queues, which run before any other callback.   *)
(*                                                                         *)
(* A host object is created once per configured descriptor (the newHost of *)
(* Monitor.connect); the reconnection loop reuses that object.  Host       *)
(* objects, and their ids, are therefore indexed by the position of the    *)
(* descriptor in KMS_ARRAY (greatRandomToken ids are taken to be unique).  *)
(***************************************************************************)
EXTENDS Integers, Sequences, FiniteSets, Bags, TLC

\* ----------------------------------------------------------------- bounds
MaxRetries  == 2   \* failed startup attempts explored per descriptor
MaxLoops    == 2   \* reconnection timers created per host
MaxInFlight == 2   \* reconnect races open at a time per host
MaxProbeTicks == 3 \* ticks of the health check timer per host
MaxProbes   == 2   \* health probes outstanding per host

\* NOF_STARTUP_CONNECTION_RETRIES defaults to Infinity: a value the capped
\* retry counter never reaches.
Infinity == MaxRetries + 1

NoTimer == 0       \* _reconnectionRoutine[id] == null

VARIABLES
  KMS_ARRAY,                       \* config: the list of host descriptors
  NOF_STARTUP_CONNECTION_RETRIES,  \* config: kurentoStartupRetries
  ENABLE_HEALTHCHECK,              \* config: enableConnHealthcheck
  hosts,                  \* Monitor.hosts: the registry, a list of host ids
  _reconnectionRoutine,   \* Monitor._reconnectionRoutine: id -> timer handle
  timers,                 \* the interval timers that are armed, per host id
  loopSeq,                \* timers created so far, per host id (handle source)
  st,                     \* position of tryToConnect for each descriptor
  retries,                \* host.retries of the tentative host
  startupFailureNotified, \* host.startupFailureNotified of the tentative host
  attempts,               \* startup connect calls made, per descriptor
  failureNotified,        \* host.failureNotified
  client,                 \* host.client: which connect callback assigned it
  inflight,               \* bag of races still open, by the timer that ticked
  lateConnects,           \* sources with a connect callback due on a lost race
  lateTimeouts,           \* a failover timer is due on a race the connect won
  alerts,                 \* the texts handed to emitHookWarning, per host
  errors,                 \* exceptions that left a handler uncaught, per host
  healthcheckerInterval,      \* interval timers started by healthcheck(host)
  healthcheckFailureNotified, \* host.healthcheckFailureNotified
  probes,                 \* bag of probeConnectionHealth promises not settled
  probeTicks,             \* ticks of the health check timer so far, per host
  outcomes,               \* how the settled probes ended, in settling order
  last,                   \* the callback that ran in the latest turn
  esl                     \* Monitor.esl: the EslWrapper of the FreeSWITCH host

cfgVars  == <<KMS_ARRAY, NOF_STARTUP_CONNECTION_RETRIES, ENABLE_HEALTHCHECK>>
loopVars == <<_reconnectionRoutine, timers, loopSeq>>
bootVars == <<st, retries, startupFailureNotified, attempts>>
probeVars == <<healthcheckerInterval, healthcheckFailureNotified, probes,
               probeTicks, outcomes>>
raceVars == <<inflight, lateConnects, lateTimeouts>>
monitorVars == <<cfgVars, hosts, loopVars, bootVars, failureNotified, client,
                 raceVars, alerts, errors, probeVars>>
vars == <<monitorVars, last, esl>>

Ids == DOMAIN KMS_ARRAY

\* ------------------------------------------------------------ descriptors
Desc(u, a) == [url |-> u, ip |-> a]

SingleHostConfigs == { <<Desc("ws1", "ip1")>> }

RetryConfigs == (1..MaxRetries) \cup {Infinity}

\* ----------------------------------------------------------------- alerts
Alert(ev, d) == [ev |-> ev, url |-> KMS_ARRAY[d].url, ip |-> KMS_ARRAY[d].ip]

emitHookWarning(d, ev) == alerts' = [alerts EXCEPT ![d] = Append(@, Alert(ev, d))]

\* ---------------------------------------------------------------- registry
removeHostAny(reg, id) == SelectSeq(reg, LAMBDA h : h = id)

removeHost(reg, id) == SelectSeq(reg, LAMBDA h : h # id)

addHostPush(reg, id) == Append(reg, id)

addHost(reg, id) == Append(removeHost(reg, id), id)

_hostStarted(reg, u, a) ==
  \E i \in DOMAIN reg : KMS_ARRAY[reg[i]].url = u /\ KMS_ARRAY[reg[i]].ip = a

\* ------------------------------------------------------------------ turns
\* The callback of a turn: its name, the host it is for, its boolean argument
\* (sameSession, connect ok, pong) and the timer handle it belongs to.
Turn(op, d, arg, t) == [op |-> op, d |-> d, arg |-> arg, t |-> t]

\* ------------------------------------------------------------------- Init
InitMonitor(configs, retryConfigs, probeConfigs) ==
  /\ KMS_ARRAY \in configs
  /\ NOF_STARTUP_CONNECTION_RETRIES \in retryConfigs
  /\ ENABLE_HEALTHCHECK \in probeConfigs
  /\ hosts = <<>>
  /\ _reconnectionRoutine = [d \in DOMAIN KMS_ARRAY |-> NoTimer]
  /\ timers = [d \in DOMAIN KMS_ARRAY |-> {}]
  /\ loopSeq = [d \in DOMAIN KMS_ARRAY |-> 0]
  /\ st = [d \in DOMAIN KMS_ARRAY |-> "new"]
  /\ retries = [d \in DOMAIN KMS_ARRAY |-> 0]
  /\ startupFailureNotified = [d \in DOMAIN KMS_ARRAY |-> FALSE]
  /\ attempts = [d \in DOMAIN KMS_ARRAY |-> 0]
  /\ failureNotified = [d \in DOMAIN KMS_ARRAY |-> FALSE]
  /\ client = [d \in DOMAIN KMS_ARRAY |-> "none"]
  /\ inflight = [d \in DOMAIN KMS_ARRAY |-> EmptyBag]
  /\ lateConnects = [d \in DOMAIN KMS_ARRAY |-> {}]
  /\ lateTimeouts = [d \in DOMAIN KMS_ARRAY |-> FALSE]
  /\ alerts = [d \in DOMAIN KMS_ARRAY |-> <<>>]
  /\ errors = [d \in DOMAIN KMS_ARRAY |-> {}]
  /\ healthcheckerInterval = [d \in DOMAIN KMS_ARRAY |-> 0]
  /\ healthcheckFailureNotified = [d \in DOMAIN KMS_ARRAY |-> FALSE]
  /\ probes = [d \in DOMAIN KMS_ARRAY |-> EmptyBag]
  /\ probeTicks = [d \in DOMAIN KMS_ARRAY |-> 0]
  /\ outcomes = [d \in DOMAIN KMS_ARRAY |-> <<>>]
  /\ last = Turn("construct", 0, FALSE, NoTimer)

\* new EslWrapper(ESL_PARAMS, emitHookWarning), before start(); sipWssUrl
\* tells whether freeswitch.sipWssUrl is configured.
EslWrapper(sipWssUrl) ==
  [ sipWssUrl |-> sipWssUrl,
    _client |-> "null",            \* handshake state of this._client
    listening |-> FALSE,           \* this._client has the notice/end listeners
    replaced |-> {},               \* callbacks still due from earlier clients
    connected |-> FALSE,
    failureNotified |-> FALSE,
    _reconnectionRoutine |-> NoTimer,
    timers |-> {},                 \* the interval timers that are armed
    loopSeq |-> 0,
    healthcheckerInterval |-> 0,   \* health check timers that are armed
    alerts |-> <<>> ]

InitWith(configs, retryConfigs, probeConfigs) ==
  /\ InitMonitor(configs, retryConfigs, probeConfigs)
  /\ esl = EslWrapper(FALSE)

Init == InitWith(SingleHostConfigs, RetryConfigs, {FALSE})

\* ------------------------------------------------- the connect/failover race
\* An attempt is one Promise.race([connect, failOver]).  The first branch to
\* settle decides it; the other branch is still due and runs later:
\*   lateTimeouts[d]  some failover timer is armed on a race its connect
\*                    already settled;
\*   lateConnects[d]  the sources ("startup", "loop") that have a connect
\*                    callback due on a race the failover timer rejected.
\* Both record "at least one": the step that runs a late branch may or may
\* not be the last of its kind.  The startup race is open while st[d] is
\* "connecting"; the open races of the reconnection loop are in inflight[d],
\* each tagged with the handle of the timer whose tick started it.
Put(bag, a) == bag (+) SetToBag({a})

Take(bag, a) == bag (-) SetToBag({a})

\* ------------------------------------------------------------ health probe
\* healthcheck(host): start the interval timer unless the host has one.
healthcheckUnguarded(d) ==
  healthcheckerInterval' = [healthcheckerInterval EXCEPT ![d] = @ + 1]

healthcheck(d) ==
  IF healthcheckerInterval[d] > 0
  THEN UNCHANGED healthcheckerInterval
  ELSE healthcheckerInterval' = [healthcheckerInterval EXCEPT ![d] = 1]

\* ENABLE_HEALTHCHECK = config.has(...) ? config.get(...) : false
EnableConnHealthcheck(has, value) == IF has THEN value ELSE FALSE

\* if (ENABLE_HEALTHCHECK) this.healthcheck(newHost)
StartHealthcheckAlways(d) == healthcheck(d)

StartHealthcheck(d) ==
  IF ENABLE_HEALTHCHECK
  THEN healthcheck(d)
  ELSE UNCHANGED healthcheckerInterval

\* ------------------------------------------------------- startup connector
\* tryToConnect up to its await: where the call leaves the descriptor.
tryToConnect(d, reg) ==
  IF retries[d] < NOF_STARTUP_CONNECTION_RETRIES
  THEN IF ~_hostStarted(reg, KMS_ARRAY[d].url, KMS_ARRAY[d].ip)
       THEN "connecting"
       ELSE "skipped"
  ELSE "abandoned"

Calls(phase) == IF phase = "connecting" THEN 1 ELSE 0

\* monitor.startHosts(): tentativeHosts.forEach(tryToConnect), one turn.
StartHosts ==
  /\ last' = Turn("startHosts", 0, FALSE, NoTimer)
  /\ UNCHANGED esl
  /\ \A d \in Ids : st[d] = "new"
  /\ st' = [d \in Ids |-> tryToConnect(d, hosts)]
  /\ attempts' = [d \in Ids |-> attempts[d] + Calls(tryToConnect(d, hosts))]
  /\ UNCHANGED <<cfgVars, probeVars, hosts, loopVars, retries, startupFailureNotified,
                 failureNotified, client, raceVars, alerts, errors>>

\* setTimeout(() => tryToConnect(host), HOST_RETRY_TIMER) fires.
RetryTimer(d) ==
  /\ last' = Turn("retryTimer", d, FALSE, NoTimer)
  /\ UNCHANGED esl
  /\ st[d] = "retryWait"
  /\ st' = [st EXCEPT ![d] = tryToConnect(d, hosts)]
  /\ attempts' = [attempts EXCEPT ![d] = @ + Calls(tryToConnect(d, hosts))]
  /\ UNCHANGED <<cfgVars, probeVars, hosts, loopVars, retries, startupFailureNotified,
                 failureNotified, client, raceVars, alerts, errors>>

\* The try branch after the await: the race resolved with newHost.
StartupSuccessSilent(d) == UNCHANGED <<startupFailureNotified, alerts>>

StartupSuccessAlways(d) ==
  /\ startupFailureNotified' = [startupFailureNotified EXCEPT ![d] = FALSE]
  /\ emitHookWarning(d, "STARTUP_CONNECT_SUCCESS")

StartupSuccess(d) ==
  IF startupFailureNotified[d]
  THEN /\ startupFailureNotified' = [startupFailureNotified EXCEPT ![d] = FALSE]
       /\ emitHookWarning(d, "STARTUP_CONNECT_SUCCESS")
  ELSE UNCHANGED <<startupFailureNotified, alerts>>

\* The catch branch: the race rejected (connect error or failover timeout).
StartupFailureEvery(d) ==
  /\ retries' = [retries EXCEPT ![d] = @ + 1]
  /\ emitHookWarning(d, "STARTUP_CONNECT_FAILURE")
  /\ startupFailureNotified' = [startupFailureNotified EXCEPT ![d] = TRUE]
  /\ st' = [st EXCEPT ![d] = "retryWait"]

StartupFailureAsOffline(d) ==
  /\ retries' = [retries EXCEPT ![d] = @ + 1]
  /\ IF ~startupFailureNotified[d]
     THEN /\ emitHookWarning(d, "MEDIA_SERVER_OFFLINE")
          /\ startupFailureNotified' = [startupFailureNotified EXCEPT ![d] = TRUE]
     ELSE UNCHANGED <<startupFailureNotified, alerts>>
  /\ st' = [st EXCEPT ![d] = "retryWait"]

StartupFailure(d) ==
  /\ retries' = [retries EXCEPT ![d] = @ + 1]
  /\ IF ~startupFailureNotified[d]
     THEN /\ emitHookWarning(d, "STARTUP_CONNECT_FAILURE")
          /\ startupFailureNotified' = [startupFailureNotified EXCEPT ![d] = TRUE]
     ELSE UNCHANGED <<startupFailureNotified, alerts>>
  /\ st' = [st EXCEPT ![d] = "retryWait"]

\* Monitor.connect's callback delivers a client before the failover timer:
\* newHost is built, observed, registered; the failover timer stays armed.
StartupConnected(d) ==
  /\ last' = Turn("startupConnected", d, TRUE, NoTimer)
  /\ UNCHANGED esl
  /\ st[d] = "connecting"
  /\ client' = [client EXCEPT ![d] = "startup"]
  /\ hosts' = addHost(hosts, d)
  /\ StartupSuccess(d)
  /\ st' = [st EXCEPT ![d] = "started"]
  /\ lateTimeouts' = [lateTimeouts EXCEPT ![d] = TRUE]
  /\ StartHealthcheck(d)
  /\ UNCHANGED <<cfgVars, loopVars, retries, attempts, failureNotified,
                 inflight, lateConnects, errors, healthcheckFailureNotified,
                 probes, probeTicks, outcomes>>

\* Monitor.connect's callback delivers an error before the failover timer.
StartupConnectError(d) ==
  /\ last' = Turn("startupConnectError", d, FALSE, NoTimer)
  /\ UNCHANGED esl
  /\ st[d] = "connecting"
  /\ retries[d] < MaxRetries
  /\ StartupFailure(d)
  /\ lateTimeouts' = [lateTimeouts EXCEPT ![d] = TRUE]
  /\ UNCHANGED <<cfgVars, probeVars, hosts, loopVars, attempts,
                 failureNotified, client, inflight, lateConnects, errors>>

\* The failover timer of connectToHost fires before the connect settles.
StartupFailover(d) ==
  /\ last' = Turn("startupFailover", d, FALSE, NoTimer)
  /\ UNCHANGED esl
  /\ st[d] = "connecting"
  /\ retries[d] < MaxRetries
  /\ StartupFailure(d)
  /\ lateConnects' = [lateConnects EXCEPT ![d] = @ \cup {"startup"}]
  /\ UNCHANGED <<cfgVars, probeVars, hosts, loopVars, attempts,
                 failureNotified, client, inflight, lateTimeouts, errors>>

\* ------------------------------------------------------ reconnection loop
\* _reconnectToServer: the presence check and the setInterval.
_reconnectToServerUnguarded(d) ==
  /\ _reconnectionRoutine' = [_reconnectionRoutine EXCEPT ![d] = loopSeq[d] + 1]
  /\ timers' = [timers EXCEPT ![d] = @ \cup {loopSeq[d] + 1}]
  /\ loopSeq' = [loopSeq EXCEPT ![d] = @ + 1]

_reconnectToServer(d) ==
  IF _reconnectionRoutine[d] = NoTimer
  THEN /\ _reconnectionRoutine' = [_reconnectionRoutine EXCEPT ![d] = loopSeq[d] + 1]
       /\ timers' = [timers EXCEPT ![d] = @ \cup {loopSeq[d] + 1}]
       /\ loopSeq' = [loopSeq EXCEPT ![d] = @ + 1]
  ELSE UNCHANGED loopVars

\* _onDisconnection: deregister, alert once, start the loop.
_onDisconnectionEvery(d) ==
  /\ hosts' = removeHost(hosts, d)
  /\ emitHookWarning(d, "MEDIA_SERVER_OFFLINE")
  /\ failureNotified' = [failureNotified EXCEPT ![d] = TRUE]
  /\ _reconnectToServer(d)

_onDisconnection(d) ==
  /\ hosts' = removeHost(hosts, d)
  /\ IF ~failureNotified[d]
     THEN /\ emitHookWarning(d, "MEDIA_SERVER_OFFLINE")
          /\ failureNotified' = [failureNotified EXCEPT ![d] = TRUE]
     ELSE UNCHANGED <<failureNotified, alerts>>
  /\ _reconnectToServer(d)

\* _onReconnection.  In the same-session branch the alert text is built from
\* `url` and `ip`, which the method never binds: `url` is the module-level
\* require('url') and `ip` is declared nowhere, so evaluating the template
\* throws a ReferenceError before emitHookWarning is called and before the
\* flag is cleared.  The error leaves the listener uncaught.
_onReconnectionAlways(sameSession, d) ==
  IF ~sameSession
  THEN _onDisconnection(d) /\ UNCHANGED errors
  ELSE /\ emitHookWarning(d, "MEDIA_SERVER_ONLINE")
       /\ failureNotified' = [failureNotified EXCEPT ![d] = FALSE]
       /\ UNCHANGED <<hosts, loopVars, errors>>

_onReconnection(sameSession, d) ==
  IF ~sameSession
  THEN _onDisconnection(d) /\ UNCHANGED errors
  ELSE IF failureNotified[d]
       THEN /\ errors' = [errors EXCEPT ![d] = @ \cup {"ReferenceError"}]
            /\ UNCHANGED <<hosts, loopVars, failureNotified, alerts>>
       ELSE UNCHANGED <<hosts, loopVars, failureNotified, alerts, errors>>

\* The observers of _monitorConnectionState exist once a connect succeeded;
\* nothing ever removes them, so the events can arrive at any later time.
Monitored(d) == st[d] = "started"

Armed(d) == _reconnectionRoutine[d] # NoTimer

\* The model creates at most MaxLoops timers per host.
MayStartLoop(d) == _reconnectionRoutine[d] # NoTimer \/ loopSeq[d] < MaxLoops

\* client.on('disconnect')
Disconnect(d) ==
  /\ last' = Turn("disconnect", d, FALSE, NoTimer)
  /\ UNCHANGED esl
  /\ Monitored(d)
  /\ MayStartLoop(d)
  /\ _onDisconnection(d)
  /\ UNCHANGED <<cfgVars, probeVars, bootVars, client, raceVars, errors>>

\* client.on('reconnected', sameSession)
Reconnected(d, sameSession) ==
  /\ last' = Turn("reconnected", d, sameSession, NoTimer)
  /\ UNCHANGED esl
  /\ Monitored(d)
  /\ sameSession \/ MayStartLoop(d)
  /\ _onReconnection(sameSession, d)
  /\ UNCHANGED <<cfgVars, probeVars, bootVars, client, raceVars>>

\* A tick of an armed interval timer: a new connect/failover race.
ReconnectTick(d, t) ==
  /\ last' = Turn("reconnectTick", d, FALSE, t)
  /\ UNCHANGED esl
  /\ t \in timers[d]
  /\ BagCardinality(inflight[d]) < MaxInFlight
  /\ inflight' = [inflight EXCEPT ![d] = Put(@, t)]
  /\ UNCHANGED <<cfgVars, probeVars, hosts, loopVars, bootVars,
                 failureNotified, client, lateConnects, lateTimeouts, alerts,
                 errors>>

Reconnected_thenKeepsTimer(d, t) ==
  /\ UNCHANGED loopVars
  /\ hosts' = addHost(hosts, d)
  /\ IF failureNotified[d]
     THEN /\ emitHookWarning(d, "MEDIA_SERVER_ONLINE")
          /\ failureNotified' = [failureNotified EXCEPT ![d] = FALSE]
     ELSE UNCHANGED <<failureNotified, alerts>>

\* The .then of the race, for an attempt started by timer t: observe, clear
\* and delete this._reconnectionRoutine[id], register, alert once.
Reconnected_thenAlways(d, t) ==
  /\ timers' = [timers EXCEPT ![d] = @ \ {_reconnectionRoutine[d]}]
  /\ _reconnectionRoutine' = [_reconnectionRoutine EXCEPT ![d] = NoTimer]
  /\ UNCHANGED loopSeq
  /\ hosts' = addHost(hosts, d)
  /\ emitHookWarning(d, "MEDIA_SERVER_ONLINE")
  /\ failureNotified' = [failureNotified EXCEPT ![d] = FALSE]

Reconnected_then(d, t) ==
  /\ timers' = [timers EXCEPT ![d] = @ \ {_reconnectionRoutine[d]}]
  /\ _reconnectionRoutine' = [_reconnectionRoutine EXCEPT ![d] = NoTimer]
  /\ UNCHANGED loopSeq
  /\ hosts' = addHost(hosts, d)
  /\ IF failureNotified[d]
     THEN /\ emitHookWarning(d, "MEDIA_SERVER_ONLINE")
          /\ failureNotified' = [failureNotified EXCEPT ![d] = FALSE]
     ELSE UNCHANGED <<failureNotified, alerts>>

\* mediaServerClient's callback delivers a client before the failover timer:
\* host.client = client; resolve(host); then the .then above.
ReconnectConnected(d, t) ==
  /\ last' = Turn("reconnectConnected", d, TRUE, t)
  /\ UNCHANGED esl
  /\ BagIn(t, inflight[d])
  /\ client' = [client EXCEPT ![d] = "winner"]
  /\ Reconnected_then(d, t)
  /\ inflight' = [inflight EXCEPT ![d] = Take(@, t)]
  /\ lateTimeouts' = [lateTimeouts EXCEPT ![d] = TRUE]
  /\ UNCHANGED <<cfgVars, probeVars, bootVars, lateConnects, errors>>

\* The .catch of the race: Logger.info, nothing else.
Reconnected_catchAlerting(d) ==
  /\ emitHookWarning(d, "MEDIA_SERVER_OFFLINE")
  /\ UNCHANGED <<hosts, loopVars, failureNotified>>

Reconnected_catch(d) == UNCHANGED <<hosts, loopVars, failureNotified, alerts>>

\* mediaServerClient's callback delivers an error first: the .catch logs.
ReconnectConnectError(d, t) ==
  /\ last' = Turn("reconnectConnectError", d, FALSE, t)
  /\ UNCHANGED esl
  /\ BagIn(t, inflight[d])
  /\ inflight' = [inflight EXCEPT ![d] = Take(@, t)]
  /\ lateTimeouts' = [lateTimeouts EXCEPT ![d] = TRUE]
  /\ Reconnected_catch(d)
  /\ UNCHANGED <<cfgVars, probeVars, bootVars, client, lateConnects, errors>>

\* The failover timer fires first: the race rejects, the .catch logs.
ReconnectFailover(d, t) ==
  /\ last' = Turn("reconnectFailover", d, FALSE, t)
  /\ UNCHANGED esl
  /\ BagIn(t, inflight[d])
  /\ inflight' = [inflight EXCEPT ![d] = Take(@, t)]
  /\ lateConnects' = [lateConnects EXCEPT ![d] = @ \cup {"loop"}]
  /\ Reconnected_catch(d)
  /\ UNCHANGED <<cfgVars, probeVars, bootVars, client, lateTimeouts, errors>>

\* --------------------------------------------- the losing branch of a race
\* setTimeout(reject, ...) fires on a race that the connect already settled:
\* rejecting a settled promise does nothing.
LateTimeout(d, final) ==
  /\ last' = Turn("lateTimeout", d, FALSE, NoTimer)
  /\ UNCHANGED esl
  /\ lateTimeouts[d]
  /\ lateTimeouts' = [lateTimeouts EXCEPT ![d] = ~final]
  /\ UNCHANGED <<cfgVars, probeVars, hosts, loopVars, bootVars,
                 failureNotified, client, inflight, lateConnects, alerts,
                 errors>>

\* What a connect callback leaves in host.client when its race is already
\* lost.  Monitor.connect builds a fresh newHost that nobody receives; the
\* callback of the reconnection loop assigns host.client before it resolves.
LateClient(d, src, ok) ==
  IF ok /\ src = "loop" THEN "loser" ELSE client[d]

\* A connect callback arrives after the failover timer rejected its race.
LateConnect(d, src, ok, final) ==
  /\ last' = Turn(IF src = "loop" THEN "lateConnect" ELSE "lateStartupConnect", d, ok, NoTimer)
  /\ UNCHANGED esl
  /\ src \in lateConnects[d]
  /\ client' = [client EXCEPT ![d] = LateClient(d, src, ok)]
  /\ lateConnects' = [lateConnects EXCEPT ![d] = IF final THEN @ \ {src} ELSE @]
  /\ UNCHANGED <<cfgVars, probeVars, hosts, loopVars, bootVars,
                 failureNotified, inflight, lateTimeouts, alerts, errors>>

\* --------------------------------------------------------- specification
Next ==
  \/ StartHosts
  \/ \E d \in Ids : RetryTimer(d)
  \/ \E d \in Ids : StartupConnected(d)
  \/ \E d \in Ids : StartupConnectError(d)
  \/ \E d \in Ids : StartupFailover(d)
  \/ \E d \in Ids : Disconnect(d)
  \/ \E d \in Ids, sameSession \in BOOLEAN : Reconnected(d, sameSession)
  \/ \E d \in Ids, t \in 1..MaxLoops : ReconnectTick(d, t)
  \/ \E d \in Ids, t \in 1..MaxLoops : ReconnectConnected(d, t)
  \/ \E d \in Ids, t \in 1..MaxLoops : ReconnectConnectError(d, t)
  \/ \E d \in Ids, t \in 1..MaxLoops : ReconnectFailover(d, t)
  \/ \E d \in Ids, final \in BOOLEAN : LateTimeout(d, final)
  \/ \E d \in Ids, src \in {"startup", "loop"}, ok, final \in BOOLEAN :
       LateConnect(d, src, ok, final)

Spec == Init /\ [][Next]_vars

\* The same monitor with the scheduling the event loop gives: an armed
\* interval timer keeps ticking and a retry timeout fires, and, for a server
\* that is reachable, attempts to connect keep succeeding.
SpecLive ==
  /\ Init
  /\ [][Next]_vars
  /\ WF_vars(\E d \in Ids : RetryTimer(d))
  /\ SF_vars(\E d \in Ids : StartupConnected(d))
  /\ WF_vars(\E d \in Ids, t \in 1..MaxLoops : ReconnectTick(d, t))
  /\ SF_vars(\E d \in Ids, t \in 1..MaxLoops : ReconnectConnected(d, t))

\* ----------------------------------------------------- health probe ticks
\* The interval callback of healthcheck: probeConnectionHealth opens a
\* WebSocket ("opening"); onOpen sends the ping and waits for the pong
\* ("pinged").
ProbeTick(d) ==
  /\ last' = Turn("probeTick", d, FALSE, NoTimer)
  /\ UNCHANGED esl
  /\ healthcheckerInterval[d] > 0
  /\ probeTicks[d] < MaxProbeTicks
  /\ BagCardinality(probes[d]) < MaxProbes
  /\ probes' = [probes EXCEPT ![d] = Put(@, "opening")]
  /\ probeTicks' = [probeTicks EXCEPT ![d] = @ + 1]
  /\ UNCHANGED <<cfgVars, hosts, loopVars, bootVars, failureNotified, client,
                 raceVars, alerts, errors, healthcheckerInterval,
                 healthcheckFailureNotified, outcomes>>

\* ws 'open': onOpen registers the message handler and sends the ping.
ProbeOpen(d) ==
  /\ last' = Turn("probeOpen", d, FALSE, NoTimer)
  /\ UNCHANGED esl
  /\ BagIn("opening", probes[d])
  /\ probes' = [probes EXCEPT ![d] = Put(Take(@, "opening"), "pinged")]
  /\ UNCHANGED <<cfgVars, hosts, loopVars, bootVars, failureNotified, client,
                 raceVars, alerts, errors, healthcheckerInterval,
                 healthcheckFailureNotified, probeTicks, outcomes>>

\* The try branch of the interval callback: the probe resolved.
ProbeSucceeded(d) ==
  /\ IF healthcheckFailureNotified[d]
     THEN /\ healthcheckFailureNotified' = [healthcheckFailureNotified EXCEPT ![d] = FALSE]
          /\ emitHookWarning(d, "WS_CONN_HEALTHY")
     ELSE UNCHANGED <<healthcheckFailureNotified, alerts>>
  /\ UNCHANGED <<hosts, failureNotified>>

\* The catch branch of the interval callback: the probe rejected.
ProbeFailedEvery(d) ==
  /\ emitHookWarning(d, "WS_CONN_UNHEALTHY")
  /\ healthcheckFailureNotified' = [healthcheckFailureNotified EXCEPT ![d] = TRUE]
  /\ UNCHANGED <<hosts, failureNotified>>

ProbeFailedDeregisters(d) ==
  /\ IF ~healthcheckFailureNotified[d]
     THEN /\ emitHookWarning(d, "WS_CONN_UNHEALTHY")
          /\ healthcheckFailureNotified' = [healthcheckFailureNotified EXCEPT ![d] = TRUE]
     ELSE UNCHANGED <<healthcheckFailureNotified, alerts>>
  /\ hosts' = removeHost(hosts, d)
  /\ UNCHANGED failureNotified

ProbeFailed(d) ==
  /\ IF ~healthcheckFailureNotified[d]
     THEN /\ emitHookWarning(d, "WS_CONN_UNHEALTHY")
          /\ healthcheckFailureNotified' = [healthcheckFailureNotified EXCEPT ![d] = TRUE]
     ELSE UNCHANGED <<healthcheckFailureNotified, alerts>>
  /\ UNCHANGED <<hosts, failureNotified>>

\* ws 'message' after the ping: a matching pong resolves, anything else is
\* ignored and the probe keeps waiting.
ProbeMessage(d, pong) ==
  /\ last' = Turn("probeMessage", d, pong, NoTimer)
  /\ UNCHANGED esl
  /\ BagIn("pinged", probes[d])
  /\ IF pong
     THEN /\ probes' = [probes EXCEPT ![d] = Take(@, "pinged")]
          /\ outcomes' = [outcomes EXCEPT ![d] = Append(@, "ok")]
          /\ ProbeSucceeded(d)
     ELSE UNCHANGED <<probes, outcomes, healthcheckFailureNotified, alerts,
                      hosts, failureNotified>>
  /\ UNCHANGED <<cfgVars, loopVars, bootVars, client, raceVars, errors,
                 healthcheckerInterval, probeTicks>>

\* ws 'error' or 'close' (handshake failure or timeout, transport error,
\* premature close), before or after the ping: onError / onClose reject.
ProbeBroken(d, phase) ==
  /\ last' = Turn(IF phase = "opening" THEN "probeBrokenOpening" ELSE "probeBroken", d, FALSE, NoTimer)
  /\ UNCHANGED esl
  /\ BagIn(phase, probes[d])
  /\ probes' = [probes EXCEPT ![d] = Take(@, phase)]
  /\ outcomes' = [outcomes EXCEPT ![d] = Append(@, "fail")]
  /\ ProbeFailed(d)
  /\ UNCHANGED <<cfgVars, loopVars, bootVars, client, raceVars, errors,
                 healthcheckerInterval, probeTicks>>

\* The health check beside a transport whose reconnect attempts connect:
\* the startup connector, the client events, the loop's ticks and successes.
NextProbe ==
  \/ StartHosts
  \/ \E d \in Ids : RetryTimer(d)
  \/ \E d \in Ids : StartupConnected(d)
  \/ \E d \in Ids : StartupConnectError(d)
  \/ \E d \in Ids : Disconnect(d)
  \/ \E d \in Ids, sameSession \in BOOLEAN : Reconnected(d, sameSession)
  \/ \E d \in Ids, t \in 1..MaxLoops : ReconnectTick(d, t)
  \/ \E d \in Ids, t \in 1..MaxLoops : ReconnectConnected(d, t)
  \/ \E d \in Ids : ProbeTick(d)
  \/ \E d \in Ids : ProbeOpen(d)
  \/ \E d \in Ids, pong \in BOOLEAN : ProbeMessage(d, pong)
  \/ \E d \in Ids, phase \in {"opening", "pinged"} : ProbeBroken(d, phase)

InitProbe ==
  InitWith(SingleHostConfigs, {Infinity},
           {EnableConnHealthcheck(has, value) : has, value \in BOOLEAN})

SpecProbe == InitProbe /\ [][NextProbe]_vars

\* The health check with the timers the code arms: the interval keeps ticking
\* and the WebSocket handshake ends by 'open' or, after handshakeTimeout, by
\* 'error'.  Once the channel is open no timer of the monitor is armed for
\* the probe: whether a pong, a close or an error ever arrives is up to the host.
SpecProbeLive ==
  /\ InitProbe
  /\ [][NextProbe]_vars
  /\ WF_vars(\E d \in Ids : ProbeTick(d))
  /\ WF_vars(\E d \in Ids : ProbeOpen(d) \/ ProbeBroken(d, "opening"))

\* A fleet of two descriptors, possibly naming the same url and address, beside
\* a transport whose reconnect attempts connect.
FleetConfigs ==
  { <<Desc("ws1", "ip1"), Desc("ws1", "ip1")>>,
    <<Desc("ws1", "ip1"), Desc("ws2", "ip2")>> }

NextFleet ==
  \/ StartHosts
  \/ \E d \in Ids : RetryTimer(d)
  \/ \E d \in Ids : StartupConnected(d)
  \/ \E d \in Ids : StartupConnectError(d)
  \/ \E d \in Ids : Disconnect(d)
  \/ \E d \in Ids, t \in 1..MaxLoops : ReconnectTick(d, t)
  \/ \E d \in Ids, t \in 1..MaxLoops : ReconnectConnected(d, t)

InitFleet == InitWith(FleetConfigs, {1}, {FALSE})

SpecFleet == InitFleet /\ [][NextFleet]_vars

\* -------------------------------------------------- alert delivery fails
\* emitHookWarning throws (https.request rejects the options synchronously,
\* e.g. a webhookURL that is not https).  Only _onDisconnection wraps the call
\* in its own try/catch; everywhere else the exception takes the path of the
\* enclosing handler.  No text is delivered, so none is recorded in alerts.

\* tryToConnect, connect succeeded and startupFailureNotified is set: the flag
\* is cleared, the call throws inside the try block, the catch block counts a
\* failure and calls emitHookWarning again for STARTUP_CONNECT_FAILURE, which
\* throws out of the async function: no healthcheck, no retry timer.
StartupConnectedHookThrows(d) ==
  /\ last' = Turn("startupConnectedHookThrows", d, TRUE, NoTimer)
  /\ UNCHANGED esl
  /\ st[d] = "connecting"
  /\ startupFailureNotified[d]
  /\ retries[d] < MaxRetries
  /\ client' = [client EXCEPT ![d] = "startup"]
  /\ hosts' = addHost(hosts, d)
  /\ startupFailureNotified' = [startupFailureNotified EXCEPT ![d] = FALSE]
  /\ retries' = [retries EXCEPT ![d] = @ + 1]
  /\ errors' = [errors EXCEPT ![d] = @ \cup {"HookError"}]
  /\ st' = [st EXCEPT ![d] = "started"]
  /\ lateTimeouts' = [lateTimeouts EXCEPT ![d] = TRUE]
  /\ UNCHANGED <<cfgVars, probeVars, loopVars, attempts, failureNotified,
                 inflight, lateConnects, alerts>>

\* tryToConnect, connect failed and startupFailureNotified is not set: the
\* call throws inside the catch block, before the flag is set and before
\* setTimeout: the descriptor is never tried again.
StartupConnectErrorHookThrows(d) ==
  /\ last' = Turn("startupConnectErrorHookThrows", d, FALSE, NoTimer)
  /\ UNCHANGED esl
  /\ st[d] = "connecting"
  /\ ~startupFailureNotified[d]
  /\ retries[d] < MaxRetries
  /\ retries' = [retries EXCEPT ![d] = @ + 1]
  /\ errors' = [errors EXCEPT ![d] = @ \cup {"HookError"}]
  /\ st' = [st EXCEPT ![d] = "halted"]
  /\ lateTimeouts' = [lateTimeouts EXCEPT ![d] = TRUE]
  /\ UNCHANGED <<cfgVars, probeVars, hosts, loopVars, attempts,
                 startupFailureNotified, failureNotified, client, inflight,
                 lateConnects, alerts>>

\* client.on('disconnect'), failureNotified not set: the inner try/catch of
\* _onDisconnection logs the exception; the flag is set and the loop started.
DisconnectHookThrows(d) ==
  /\ last' = Turn("disconnectHookThrows", d, FALSE, NoTimer)
  /\ UNCHANGED esl
  /\ Monitored(d)
  /\ MayStartLoop(d)
  /\ ~failureNotified[d]
  /\ hosts' = removeHost(hosts, d)
  /\ failureNotified' = [failureNotified EXCEPT ![d] = TRUE]
  /\ _reconnectToServer(d)
  /\ UNCHANGED <<cfgVars, probeVars, bootVars, client, raceVars, alerts, errors>>

\* The .then of a won race, failureNotified set: the timer is cleared and the
\* host registered, the call throws before the flag is cleared, and the
\* .catch of the chain logs it as a failed reconnect.
ReconnectConnectedHookThrows(d, t) ==
  /\ last' = Turn("reconnectConnectedHookThrows", d, TRUE, t)
  /\ UNCHANGED esl
  /\ BagIn(t, inflight[d])
  /\ failureNotified[d]
  /\ client' = [client EXCEPT ![d] = "winner"]
  /\ timers' = [timers EXCEPT ![d] = @ \ {_reconnectionRoutine[d]}]
  /\ _reconnectionRoutine' = [_reconnectionRoutine EXCEPT ![d] = NoTimer]
  /\ hosts' = addHost(hosts, d)
  /\ inflight' = [inflight EXCEPT ![d] = Take(@, t)]
  /\ lateTimeouts' = [lateTimeouts EXCEPT ![d] = TRUE]
  /\ UNCHANGED <<cfgVars, probeVars, bootVars, loopSeq, failureNotified,
                 lateConnects, alerts, errors>>

\* The monitor beside a webhook whose delivery call may throw.
NextHook ==
  \/ StartHosts
  \/ \E d \in Ids : RetryTimer(d)
  \/ \E d \in Ids : StartupConnected(d)
  \/ \E d \in Ids : StartupConnectError(d)
  \/ \E d \in Ids : Disconnect(d)
  \/ \E d \in Ids, t \in 1..MaxLoops : ReconnectTick(d, t)
  \/ \E d \in Ids, t \in 1..MaxLoops : ReconnectConnected(d, t)
  \/ \E d \in Ids, t \in 1..MaxLoops : ReconnectConnectError(d, t)
  \/ \E d \in Ids : StartupConnectedHookThrows(d)
  \/ \E d \in Ids : StartupConnectErrorHookThrows(d)
  \/ \E d \in Ids : DisconnectHookThrows(d)
  \/ \E d \in Ids, t \in 1..MaxLoops : ReconnectConnectedHookThrows(d, t)

SpecHook == Init /\ [][NextHook]_vars

\* The fleet with the health check enabled and every kind of step per host;
\* each host is followed through its first reconnection loop, one attempt at
\* a time, and through the first tick of its health check timer.
NextPair ==
  \/ StartHosts
  \/ \E d \in Ids : RetryTimer(d)
  \/ \E d \in Ids : StartupConnected(d)
  \/ \E d \in Ids : StartupConnectError(d)
  \/ \E d \in Ids : loopSeq[d] = 0 /\ Disconnect(d)
  \/ \E d \in Ids, sameSession \in BOOLEAN :
       (sameSession \/ Armed(d)) /\ Reconnected(d, sameSession)
  \/ \E d \in Ids, t \in 1..MaxLoops :
       inflight[d] = EmptyBag /\ ReconnectTick(d, t)
  \/ \E d \in Ids, t \in 1..MaxLoops : ReconnectConnected(d, t)
  \/ \E d \in Ids : probeTicks[d] = 0 /\ ProbeTick(d)
  \/ \E d \in Ids : ProbeOpen(d)
  \/ \E d \in Ids : ProbeMessage(d, TRUE)
  \/ \E d \in Ids, phase \in {"opening", "pinged"} : ProbeBroken(d, phase)

InitPair == InitWith(FleetConfigs, {1}, {TRUE})

SpecPair == InitPair /\ [][NextPair]_vars

\* ------------------------------------------------- events of an old handle
\* _onDisconnection neither closes host.client nor removes the observers that
\* _monitorConnectionState attached to it, and the .then of the loop attaches
\* observers to the new client: every handle the host ever had keeps
\* delivering its events to the same host object.  A handle is old once it
\* has delivered a disconnect.
OldHandle(d) == Monitored(d) /\ loopSeq[d] > 0

\* 'disconnect' on an old handle.
StaleDisconnect(d) ==
  /\ last' = Turn("staleDisconnect", d, FALSE, NoTimer)
  /\ UNCHANGED esl
  /\ OldHandle(d)
  /\ MayStartLoop(d)
  /\ _onDisconnection(d)
  /\ UNCHANGED <<cfgVars, probeVars, bootVars, client, raceVars, errors>>

\* 'reconnected' on an old handle.
StaleReconnected(d, sameSession) ==
  /\ last' = Turn("staleReconnected", d, sameSession, NoTimer)
  /\ UNCHANGED esl
  /\ OldHandle(d)
  /\ sameSession \/ MayStartLoop(d)
  /\ _onReconnection(sameSession, d)
  /\ UNCHANGED <<cfgVars, probeVars, bootVars, client, raceVars>>

NextHandles ==
  \/ Next
  \/ \E d \in Ids : StaleDisconnect(d)
  \/ \E d \in Ids, sameSession \in BOOLEAN : StaleReconnected(d, sameSession)

SpecHandles == Init /\ [][NextHandles]_vars

\* monitor.healthcheck(host) called once more for a host that connected.
HealthcheckCall(d) ==
  /\ last' = Turn("healthcheck", d, healthcheckerInterval[d] > 0, NoTimer)
  /\ UNCHANGED esl
  /\ st[d] = "started"
  /\ healthcheck(d)
  /\ UNCHANGED <<cfgVars, hosts, loopVars, bootVars, failureNotified, client,
                 raceVars, alerts, errors, healthcheckFailureNotified, probes,
                 probeTicks, outcomes>>

\* ------------------------------------------------- FreeSWITCH (src/esl.js)
\* The operators below take the wrapper's state and give its next state.

\* healthcheck(): start the interval timer unless one is set or no
\* sipWssUrl is configured.
Esl_healthcheckUnguarded(e) ==
  [e EXCEPT !.healthcheckerInterval = IF e.sipWssUrl THEN @ + 1 ELSE @]

Esl_healthcheck(e) ==
  IF e.healthcheckerInterval > 0 \/ ~e.sipWssUrl
  THEN e
  ELSE [e EXCEPT !.healthcheckerInterval = 1]

\* stop(): end the client and forget it.  The ended client keeps the
\* listeners it was given: its 'error' listener (and auth callback), the
\* notice/end listeners if it was subscribed, its subscribe callback if that
\* was still due.
Esl_stop(e) ==
  IF e._client = "null"
  THEN e
  ELSE [e EXCEPT !._client = "null",
                 !.listening = FALSE,
                 !.replaced = @ \cup {"error"}
                                \cup (IF e.listening THEN {"end"} ELSE {})
                                \cup (IF e._client = "ready" THEN {"subscribed"} ELSE {})]

\* _connect(): a new Connection with _onConnected as its ready callback.
Esl_connect(e) == [e EXCEPT !._client = "connecting", !.listening = FALSE]

\* _onConnected(): clear the reconnection timer, subscribe.
Esl_onConnectedKeepsTimer(e) == [e EXCEPT !._client = "ready"]

Esl_onConnected(e) ==
  [e EXCEPT !.timers = @ \ {e._reconnectionRoutine},
            !._reconnectionRoutine = NoTimer,
            !._client = "ready"]

\* _onDisconnection(): with no timer set, alert once and start the loop.
Esl_onDisconnectionEvery(e) ==
  IF e._reconnectionRoutine = NoTimer
  THEN [e EXCEPT !.alerts = Append(@, "MEDIA_SERVER_OFFLINE"),
                 !.failureNotified = TRUE,
                 !._reconnectionRoutine = e.loopSeq + 1,
                 !.timers = @ \cup {e.loopSeq + 1},
                 !.loopSeq = @ + 1]
  ELSE e

Esl_onDisconnectionUnguarded(e) ==
  [e EXCEPT !.alerts = IF e.failureNotified
                       THEN @ ELSE Append(@, "MEDIA_SERVER_OFFLINE"),
            !.failureNotified = TRUE,
            !._reconnectionRoutine = e.loopSeq + 1,
            !.timers = @ \cup {e.loopSeq + 1},
            !.loopSeq = @ + 1]

Esl_onDisconnection(e) ==
  IF e._reconnectionRoutine = NoTimer
  THEN [e EXCEPT !.alerts = IF e.failureNotified
                            THEN @ ELSE Append(@, "MEDIA_SERVER_OFFLINE"),
                 !.failureNotified = TRUE,
                 !._reconnectionRoutine = e.loopSeq + 1,
                 !.timers = @ \cup {e.loopSeq + 1},
                 !.loopSeq = @ + 1]
  ELSE e

\* _onSubscribed(): listen for the disconnect notices on this._client, mark
\* connected, alert once if a failure was notified.
Esl_onSubscribed(e) ==
  [e EXCEPT !.listening = TRUE,
            !.connected = TRUE,
            !.alerts = IF e.failureNotified
                       THEN Append(@, "MEDIA_SERVER_ONLINE") ELSE @,
            !.failureNotified = FALSE]

\* The model creates at most MaxLoops timers for the wrapper.
EslMayStartLoop == esl._reconnectionRoutine # NoTimer \/ esl.loopSeq < MaxLoops

\* monitor.monitorFreeSWITCH(): new EslWrapper(...).start()
EslStart ==
  /\ last' = Turn("eslStart", 0, FALSE, NoTimer)
  /\ esl._client = "null" /\ esl.loopSeq = 0
  /\ esl' = Esl_healthcheck(Esl_connect(esl))
  /\ UNCHANGED monitorVars

\* The ready callback of the current client.
EslConnected ==
  /\ last' = Turn("eslConnected", 0, TRUE, NoTimer)
  /\ esl._client = "connecting"
  /\ esl' = Esl_onConnected(esl)
  /\ UNCHANGED monitorVars

\* The subscribe callback of the current client.
EslSubscribed ==
  /\ last' = Turn("eslSubscribed", 0, TRUE, NoTimer)
  /\ esl._client = "ready"
  /\ esl' = [Esl_onSubscribed(esl) EXCEPT !._client = "subscribed"]
  /\ UNCHANGED monitorVars

\* The auth callback with an error (auth = TRUE), while the handshake is
\* open, or the 'error' event of the current client.
EslError(auth) ==
  /\ last' = Turn(IF auth THEN "eslAuthError" ELSE "eslError", 0, FALSE, NoTimer)
  /\ IF auth THEN esl._client = "connecting" ELSE esl._client # "null"
  /\ EslMayStartLoop
  /\ esl' = Esl_onDisconnection(esl)
  /\ UNCHANGED monitorVars

\* esl::events::disconnect::notice or esl::end of the current client.
EslNotice ==
  /\ last' = Turn("eslNotice", 0, FALSE, NoTimer)
  /\ esl.listening
  /\ EslMayStartLoop
  /\ esl' = Esl_onDisconnection(esl)
  /\ UNCHANGED monitorVars

\* A tick of the reconnection timer: stop(), _connect(), listen for errors.
EslTick(t) ==
  /\ last' = Turn("eslTick", 0, FALSE, t)
  /\ t \in esl.timers
  /\ esl' = Esl_connect(Esl_stop(esl))
  /\ UNCHANGED monitorVars

\* A callback of a client that a tick replaced: its subscribe callback, its
\* esl::end, its 'error' event.  It may or may not be the last of its kind.
EslReplaced(kind, final) ==
  /\ last' = Turn(IF kind = "subscribed" THEN "eslReplacedSubscribed"
                  ELSE "eslReplacedEvent", 0, final, NoTimer)
  /\ kind \in esl.replaced
  /\ esl._client # "null"
  /\ kind = "subscribed" \/ EslMayStartLoop
  /\ esl' = [(IF kind = "subscribed"
              THEN Esl_onSubscribed(esl)
              ELSE Esl_onDisconnection(esl))
             EXCEPT !.replaced = IF final THEN @ \ {kind} ELSE @]
  /\ UNCHANGED monitorVars

\* esl.healthcheck() called once more after start().
EslHealthcheckCall ==
  /\ last' = Turn("eslHealthcheck", 0, esl.healthcheckerInterval > 0, NoTimer)
  /\ esl._client # "null"
  /\ esl' = Esl_healthcheck(esl)
  /\ UNCHANGED monitorVars

\* The health checks of the hosts and of FreeSWITCH, with further calls of
\* healthcheck on what already started.
NextHealthcheck ==
  \/ StartHosts
  \/ \E d \in Ids : StartupConnected(d)
  \/ \E d \in Ids : StartupConnectError(d)
  \/ \E d \in Ids : RetryTimer(d)
  \/ \E d \in Ids : ProbeTick(d)
  \/ \E d \in Ids : ProbeOpen(d)
  \/ \E d \in Ids, pong \in BOOLEAN : ProbeMessage(d, pong)
  \/ \E d \in Ids, phase \in {"opening", "pinged"} : ProbeBroken(d, phase)
  \/ \E d \in Ids : HealthcheckCall(d)
  \/ EslStart
  \/ EslConnected
  \/ EslHealthcheckCall

InitHealthcheck ==
  /\ InitMonitor(SingleHostConfigs, {1},
                 {EnableConnHealthcheck(has, value) : has, value \in BOOLEAN})
  /\ esl \in {EslWrapper(sipWssUrl) : sipWssUrl \in BOOLEAN}

SpecHealthcheck == InitHealthcheck /\ [][NextHealthcheck]_vars

NextEsl ==
  \/ EslStart
  \/ EslConnected
  \/ EslSubscribed
  \/ \E auth \in BOOLEAN : EslError(auth)
  \/ EslNotice
  \/ \E t \in 1..MaxLoops : EslTick(t)
  \/ \E kind \in {"subscribed", "end", "error"}, final \in BOOLEAN :
       EslReplaced(kind, final)

InitEsl ==
  /\ InitMonitor(SingleHostConfigs, {Infinity}, {FALSE})
  /\ esl \in {EslWrapper(sipWssUrl) : sipWssUrl \in BOOLEAN}

SpecEsl == InitEsl /\ [][NextEsl]_vars

\* The interval timer fires while it is armed; FreeSWITCH, asked again and
\* again, accepts a connection and answers the subscription.
SpecEslLive ==
  /\ InitEsl /\ [][NextEsl]_vars
  /\ WF_vars(\E t \in 1..MaxLoops : EslTick(t))
  /\ SF_vars(EslConnected)
  /\ SF_vars(EslSubscribed)

\* ================================================================ claims
Events(d) == [i \in 1..Len(alerts[d]) |-> alerts[d][i].ev]

Only(seq, evs) == SelectSeq(seq, LAMBDA e : e \in evs)

OnlineOffline(d) == Only(Events(d), {"MEDIA_SERVER_OFFLINE", "MEDIA_SERVER_ONLINE"})

StartupEvents(d) ==
  Only(Events(d), {"STARTUP_CONNECT_FAILURE", "STARTUP_CONNECT_SUCCESS"})

ProbeEvents(d) == Only(Events(d), {"WS_CONN_UNHEALTHY", "WS_CONN_HEALTHY"})

\* C1: for every host the MEDIA_SERVER_OFFLINE and MEDIA_SERVER_ONLINE alerts
\* strictly alternate and start with OFFLINE.
C1_OfflineOnlineAlternate ==
  \A d \in Ids : \A i \in 1..Len(OnlineOffline(d)) :
    OnlineOffline(d)[i] =
      IF i % 2 = 1 THEN "MEDIA_SERVER_OFFLINE" ELSE "MEDIA_SERVER_ONLINE"

\* Two full OFFLINE/ONLINE cycles, the second after a same-session
\* reconnected event was delivered while the flag was set.
C1_Witness ==
  \E d \in Ids :
    /\ OnlineOffline(d) = <<"MEDIA_SERVER_OFFLINE", "MEDIA_SERVER_ONLINE",
                            "MEDIA_SERVER_OFFLINE", "MEDIA_SERVER_ONLINE">>
    /\ errors[d] # {}

\* C2: at most one reconnection timer is armed per host id, it is the one in
\* _reconnectionRoutine, and a disconnect or a new-session reconnected event
\* for an id whose entry is set leaves the timers as they are.
C2_OneTimerPerHost ==
  /\ [](\A d \in Ids :
          /\ Cardinality(timers[d]) <= 1
          /\ timers[d] = IF _reconnectionRoutine[d] = NoTimer
                         THEN {} ELSE {_reconnectionRoutine[d]})
  /\ [][\A d \in Ids :
          ( /\ _reconnectionRoutine[d] # NoTimer
            /\ last'.d = d
            /\ \/ last'.op = "disconnect"
               \/ last'.op = "reconnected" /\ ~last'.arg )
          => UNCHANGED <<loopVars, hosts, failureNotified, alerts, raceVars>>]_vars

\* A new-session reconnected event has just been delivered while the second
\* timer of the host is armed and an attempt of its first timer is still open.
C2_Witness ==
  \E d \in Ids :
    /\ last = Turn("reconnected", d, FALSE, NoTimer)
    /\ _reconnectionRoutine[d] = 2
    /\ BagIn(1, inflight[d])

\* C3: the registry holds at most one entry per (url, address) pair.
C3_RegistryUniquePerAddress ==
  \A i, j \in DOMAIN hosts :
    i # j => \/ KMS_ARRAY[hosts[i]].url # KMS_ARRAY[hosts[j]].url
             \/ KMS_ARRAY[hosts[i]].ip # KMS_ARRAY[hosts[j]].ip

\* C4: STARTUP_CONNECT_SUCCESS is emitted only after a STARTUP_CONNECT_FAILURE
\* of the same descriptor, and a descriptor whose first attempt succeeds emits
\* neither of the two.
C4_StartupSuccessOnlyAfterFailure ==
  \A d \in Ids :
    /\ \A i \in 1..Len(Events(d)) :
         Events(d)[i] = "STARTUP_CONNECT_SUCCESS"
           => \E j \in 1..(i - 1) : Events(d)[j] = "STARTUP_CONNECT_FAILURE"
    /\ retries[d] = 0 => StartupEvents(d) = <<>>

\* A descriptor that failed, then connected and announced it.
C4_Witness ==
  \E d \in Ids :
    /\ st[d] = "started"
    /\ StartupEvents(d) = <<"STARTUP_CONNECT_FAILURE", "STARTUP_CONNECT_SUCCESS">>

\* C5: with a finite retry bound N >= 1 and connects that always fail, exactly
\* N attempts are made and exactly one STARTUP_CONNECT_FAILURE is emitted; once
\* the N-th attempt has failed no attempt and no alert follows.
C5_BoundedStartupRetries ==
  /\ [](\A d \in Ids :
          ( /\ NOF_STARTUP_CONNECTION_RETRIES # Infinity
            /\ retries[d] = NOF_STARTUP_CONNECTION_RETRIES )
          => /\ attempts[d] = NOF_STARTUP_CONNECTION_RETRIES
             /\ Events(d) = <<"STARTUP_CONNECT_FAILURE">>
             /\ st[d] \in {"retryWait", "abandoned"})
  /\ [][\A d \in Ids :
          ( /\ NOF_STARTUP_CONNECTION_RETRIES # Infinity
            /\ retries[d] = NOF_STARTUP_CONNECTION_RETRIES )
          => /\ retries'[d] = retries[d]
             /\ attempts'[d] = attempts[d]
             /\ alerts'[d] = alerts[d]]_vars

\* Two attempts out of two failed and the retry timer found the bound reached.
C5_Witness ==
  \E d \in Ids :
    /\ NOF_STARTUP_CONNECTION_RETRIES = 2
    /\ retries[d] = 2
    /\ st[d] = "abandoned"
    /\ last = Turn("retryTimer", d, FALSE, NoTimer)

\* The alerts an edge-triggered gate emits for a sequence of probe outcomes.
RECURSIVE EdgeAlerts(_, _)
EdgeAlerts(seq, flag) ==
  IF seq = <<>> THEN <<>>
  ELSE IF Head(seq) = "fail"
       THEN (IF flag THEN <<>> ELSE <<"WS_CONN_UNHEALTHY">>)
            \o EdgeAlerts(Tail(seq), TRUE)
       ELSE (IF flag THEN <<"WS_CONN_HEALTHY">> ELSE <<>>)
            \o EdgeAlerts(Tail(seq), FALSE)

\* C6: with the health probe enabled the probe alerts are those of the edges
\* of the settled outcomes, in settling order: N consecutive failures emit one
\* WS_CONN_UNHEALTHY, the first success after them one WS_CONN_HEALTHY, and
\* WS_CONN_HEALTHY only follows WS_CONN_UNHEALTHY.
C6_ProbeAlertsAreEdges ==
  \A d \in Ids :
    /\ ProbeEvents(d) = EdgeAlerts(outcomes[d], FALSE)
    /\ \A i \in 1..Len(ProbeEvents(d)) :
         ProbeEvents(d)[i] =
           IF i % 2 = 1 THEN "WS_CONN_UNHEALTHY" ELSE "WS_CONN_HEALTHY"

\* Two probes were open at once; two failures and then a success settled.
C6_Witness ==
  \E d \in Ids :
    /\ ENABLE_HEALTHCHECK
    /\ outcomes[d] = <<"fail", "fail", "ok">>
    /\ ProbeEvents(d) = <<"WS_CONN_UNHEALTHY", "WS_CONN_HEALTHY">>
    /\ last = Turn("probeMessage", d, TRUE, NoTimer)

SteadyEvents(d) ==
  SelectSeq(Events(d), LAMBDA e :
    e \notin {"STARTUP_CONNECT_FAILURE", "STARTUP_CONNECT_SUCCESS"})

Entries(d) == Len(SelectSeq(hosts, LAMBDA h : h = d))

\* C7: a registered host is disconnected, a reconnected event of a new session
\* follows, and an attempt of the loop then succeeds: the alerts of the host are
\* MEDIA_SERVER_OFFLINE then MEDIA_SERVER_ONLINE, the registry holds the host
\* once and no reconnection timer is armed for its id.  The new-session event
\* that arrives while the loop of the disconnect runs changes nothing.
C7_DisconnectNewSessionReconnect ==
  /\ [](\A d \in Ids :
          (loopSeq[d] = 1 /\ _reconnectionRoutine[d] = NoTimer)
          => /\ SteadyEvents(d) = <<"MEDIA_SERVER_OFFLINE", "MEDIA_SERVER_ONLINE">>
             /\ Entries(d) = 1
             /\ timers[d] = {})
  /\ [][\A d \in Ids :
          ( /\ last' = Turn("reconnected", d, FALSE, NoTimer)
            /\ failureNotified[d]
            /\ _reconnectionRoutine[d] # NoTimer )
          => UNCHANGED <<hosts, loopVars, failureNotified, alerts, raceVars,
                         client, errors>>]_vars

\* The only loop of the host has succeeded and every attempt has settled.
C7_Witness ==
  \E d \in Ids :
    /\ last.op = "reconnectConnected" /\ last.d = d
    /\ loopSeq[d] = 1
    /\ _reconnectionRoutine[d] = NoTimer
    /\ inflight[d] = EmptyBag
    /\ "loop" \notin lateConnects[d]
    /\ hosts = <<d>>
    /\ Events(d) = <<"MEDIA_SERVER_OFFLINE", "MEDIA_SERVER_ONLINE">>

\* C8: a same-session reconnected event for a host whose failureNotified is
\* not set emits no alert and changes neither the registry, the timers nor a
\* dedup flag.
C8_SameSessionWithoutFailureIsInert ==
  [][\A d \in Ids :
       (last' = Turn("reconnected", d, TRUE, NoTimer) /\ ~failureNotified[d])
       => UNCHANGED <<alerts, hosts, loopVars, failureNotified,
                      startupFailureNotified, healthcheckFailureNotified,
                      errors>>]_vars

\* The event has been delivered to a registered host that never went offline.
C8_Witness ==
  \E d \in Ids :
    /\ last = Turn("reconnected", d, TRUE, NoTimer)
    /\ ~failureNotified[d]
    /\ hosts = <<d>>
    /\ alerts[d] = <<>>
    /\ errors[d] = {}

\* C9: a same-session reconnected event for a host whose failureNotified is
\* set clears the flag, emits one MEDIA_SERVER_ONLINE with the host's url and
\* address, raises no error and leaves the registry unchanged.
C9_SameSessionAfterFailureAlertsOnline ==
  [][\A d \in Ids :
       (last' = Turn("reconnected", d, TRUE, NoTimer) /\ failureNotified[d])
       => /\ ~failureNotified'[d]
          /\ alerts'[d] = Append(alerts[d], Alert("MEDIA_SERVER_ONLINE", d))
          /\ errors'[d] = errors[d]
          /\ hosts' = hosts]_vars

\* C10: the branch that loses a connect/failover race changes nothing when it
\* settles later: no host field (host.client included), registry entry, timer
\* or flag.
C10_LosingBranchIsInert ==
  [][\A d \in Ids :
       ( /\ last'.d = d
         /\ last'.op \in {"lateTimeout", "lateConnect", "lateStartupConnect"} )
       => UNCHANGED <<hosts, client, loopVars, bootVars, failureNotified,
                      healthcheckFailureNotified, alerts, errors>>]_vars

\* C11: a failure of the alert delivery is never surfaced and never blocks
\* supervision; the state changes are those of a successful delivery: at
\* startup a connected host stays registered and is not counted as a failure,
\* a failed attempt still schedules its retry, and a disconnect deregisters
\* the host and starts the reconnection loop.
C11_DeliveryFailureIsHarmless ==
  [][\A d \in Ids :
       last'.d = d =>
         /\ last'.op = "startupConnectedHookThrows"
              => /\ Entries(d)' = 1
                 /\ retries'[d] = retries[d]
                 /\ errors'[d] = errors[d]
         /\ last'.op = "startupConnectErrorHookThrows"
              => /\ st'[d] = "retryWait"
                 /\ errors'[d] = errors[d]
         /\ last'.op = "disconnectHookThrows"
              => /\ Entries(d)' = 0
                 /\ _reconnectionRoutine'[d] # NoTimer
                 /\ errors'[d] = errors[d]]_vars

C13_SuccessClearsOwnTimer ==
  [][\A d \in Ids :
       (last'.op = "reconnectConnected" /\ last'.d = d)
       => /\ timers'[d] = timers[d] \ {last'.t}
          /\ _reconnectionRoutine'[d] =
               IF _reconnectionRoutine[d] = last'.t
               THEN NoTimer ELSE _reconnectionRoutine[d]
          /\ Entries(d)' = 1
          /\ alerts'[d] = IF failureNotified[d]
                          THEN Append(alerts[d], Alert("MEDIA_SERVER_ONLINE", d))
                          ELSE alerts[d]
          /\ ~failureNotified'[d]]_vars

\* C14: a failed tick of the reconnection loop (connect error or failover
\* timeout) emits no alert and changes neither the registry, the timer nor
\* failureNotified; after MEDIA_SERVER_OFFLINE, failed ticks add no alert.
C14_FailedTickIsSilent ==
  [][\A d \in Ids :
       ( /\ last'.d = d
         /\ last'.op \in {"reconnectConnectError", "reconnectFailover"} )
       => UNCHANGED <<alerts, hosts, loopVars, failureNotified,
                      startupFailureNotified, healthcheckFailureNotified,
                      client, errors>>]_vars

\* A tick failed by connect error after an earlier one failed by timeout; the
\* only alert of the host is still the MEDIA_SERVER_OFFLINE of the disconnect.
C14_Witness ==
  \E d \in Ids :
    /\ last.op = "reconnectConnectError" /\ last.d = d
    /\ "loop" \in lateConnects[d]
    /\ _reconnectionRoutine[d] # NoTimer
    /\ hosts = <<>>
    /\ Events(d) = <<"MEDIA_SERVER_OFFLINE">>


\* C15: after a disconnect the host is out of the registry and its timer stays
\* armed through every step that is not a successful attempt (the loop keeps
\* retrying); with timers that keep ticking and attempts that eventually
\* connect, the host is eventually back in the registry with its timer
\* cleared and MEDIA_SERVER_ONLINE emitted.
C15_EventuallyReconnected ==
  /\ [](\A d \in Ids : Armed(d) => /\ Entries(d) = 0
                                    /\ timers[d] = {_reconnectionRoutine[d]}
                                    /\ failureNotified[d])
  /\ [][\A d \in Ids :
          (Armed(d) /\ ~(last'.op = "reconnectConnected" /\ last'.d = d))
          => /\ _reconnectionRoutine'[d] = _reconnectionRoutine[d]
             /\ Entries(d)' = 0]_vars
  /\ (\E d \in Ids : Armed(d))
       ~> (\E d \in Ids : /\ ~Armed(d)
                           /\ timers[d] = {}
                           /\ Entries(d) = 1
                           /\ Len(Events(d)) > 0
                           /\ Events(d)[Len(Events(d))] = "MEDIA_SERVER_ONLINE")

\* A host that went offline saw an attempt fail and a later one connect.
C15_Witness ==
  \E d \in Ids :
    /\ last.op = "reconnectConnected" /\ last.d = d
    /\ "loop" \in lateConnects[d]
    /\ ~Armed(d)
    /\ hosts = <<d>>
    /\ Events(d) = <<"MEDIA_SERVER_OFFLINE", "MEDIA_SERVER_ONLINE">>

\* C16: a descriptor whose startup connect fails k >= 1 times, k below the
\* retry bound, and then succeeds emits exactly one STARTUP_CONNECT_FAILURE
\* followed by exactly one STARTUP_CONNECT_SUCCESS and is registered by the
\* successful attempt; with the unbounded retry count and connects that
\* eventually succeed the host is eventually registered.
C16_StartupFailuresThenSuccess ==
  /\ [](\A d \in Ids :
          /\ (st[d] = "started" /\ retries[d] >= 1)
               => StartupEvents(d) = <<"STARTUP_CONNECT_FAILURE",
                                       "STARTUP_CONNECT_SUCCESS">>
          /\ (st[d] # "started" /\ retries[d] >= 1)
               => StartupEvents(d) = <<"STARTUP_CONNECT_FAILURE">>)
  /\ [][\A d \in Ids :
          (last'.op = "startupConnected" /\ last'.d = d) => Entries(d)' = 1]_vars
  /\ ( /\ NOF_STARTUP_CONNECTION_RETRIES = Infinity
       /\ \E d \in Ids : st[d] \in {"connecting", "retryWait"} )
       ~> (\E d \in Ids : st[d] = "started" /\ client[d] # "none")

\* With the unbounded retry count a descriptor failed twice, once by connect
\* error and once by timeout, and then connected.
C16_Witness ==
  \E d \in Ids :
    /\ NOF_STARTUP_CONNECTION_RETRIES = Infinity
    /\ last = Turn("startupConnected", d, TRUE, NoTimer)
    /\ retries[d] = 2
    /\ "startup" \in lateConnects[d]
    /\ hosts = <<d>>
    /\ Events(d) = <<"STARTUP_CONNECT_FAILURE", "STARTUP_CONNECT_SUCCESS">>

StartupTurns == {"startupConnected", "startupConnectError", "startupFailover"}

\* C17: STARTUP_CONNECT_FAILURE and STARTUP_CONNECT_SUCCESS are emitted only
\* by turns of the startup connector and never after the host was first
\* registered; MEDIA_SERVER_OFFLINE and MEDIA_SERVER_ONLINE are never emitted
\* for a host before its first successful startup connect.
C17_StartupAndSteadyAlertsSeparate ==
  /\ [](\A d \in Ids :
          /\ st[d] # "started" => SteadyEvents(d) = <<>>
          /\ Events(d) = StartupEvents(d) \o SteadyEvents(d))
  /\ [][\A d \in Ids :
          /\ st[d] = "started" => StartupEvents(d)' = StartupEvents(d)
          /\ StartupEvents(d)' # StartupEvents(d)
               => (last'.op \in StartupTurns /\ last'.d = d)
          /\ SteadyEvents(d)' # SteadyEvents(d)
               => (last'.op \notin StartupTurns /\ last'.d = d)]_vars

\* A host with both startup alerts followed by both steady-state alerts.
C17_Witness ==
  \E d \in Ids :
    /\ st[d] = "started"
    /\ Events(d) = <<"STARTUP_CONNECT_FAILURE", "STARTUP_CONNECT_SUCCESS",
                     "MEDIA_SERVER_OFFLINE", "MEDIA_SERVER_ONLINE">>

\* C18: every health probe terminates with an outcome, also for a host that
\* accepts the side channel and never answers the ping: outstanding probes
\* are eventually all settled.
C18_ProbeTerminates ==
  (\E d \in Ids : probes[d] # EmptyBag) ~> (\E d \in Ids : probes[d] = EmptyBag)

SteadyStateEvents == {"MEDIA_SERVER_OFFLINE", "MEDIA_SERVER_ONLINE"}

StartupStateEvents == {"STARTUP_CONNECT_FAILURE", "STARTUP_CONNECT_SUCCESS"}

ProbeTurns ==
  {"probeTick", "probeOpen", "probeMessage", "probeBroken", "probeBrokenOpening"}

\* C19: a turn of the health probe changes no state of the disconnect and
\* reconnect machine (registry, reconnection timers, failureNotified,
\* startupFailureNotified) and emits only probe alerts; every other turn
\* leaves healthcheckFailureNotified and the probe alerts alone.
C19_ProbeIndependent ==
  [][\A d \in Ids :
       /\ last'.op \in ProbeTurns
            => /\ UNCHANGED <<hosts, loopVars, bootVars, failureNotified,
                              client, raceVars, errors>>
               /\ \/ alerts'[d] = alerts[d]
                  \/ \E ev \in {"WS_CONN_UNHEALTHY", "WS_CONN_HEALTHY"} :
                       alerts'[d] = Append(alerts[d], Alert(ev, d))
       /\ last'.op \notin ProbeTurns
            => /\ UNCHANGED <<healthcheckFailureNotified, probes, outcomes>>
               /\ \/ alerts'[d] = alerts[d]
                  \/ \E ev \in SteadyStateEvents \cup StartupStateEvents :
                       alerts'[d] = Append(alerts[d], Alert(ev, d))]_vars

\* A probe has just failed and alerted for a host that is in the registry and
\* was never reported offline.
C19_Witness ==
  \E d \in Ids :
    /\ last.op = "probeBroken" /\ last.d = d
    /\ hosts = <<d>>
    /\ ~failureNotified[d]
    /\ healthcheckFailureNotified[d]
    /\ Events(d) = <<"WS_CONN_UNHEALTHY">>

\* C20: a step taken for host A leaves the registry entry, retry counter,
\* dedup flags, alerts and reconnection timer of every other host B as they
\* are, and whatever A's connect attempt does, B's pending connect attempt
\* can complete and register B.
C20_HostsIndependent ==
  /\ [][\A a, b \in Ids :
          (a # b /\ last'.d = a)
          => /\ Entries(b)' = Entries(b)
             /\ retries'[b] = retries[b]
             /\ st'[b] = st[b]
             /\ startupFailureNotified'[b] = startupFailureNotified[b]
             /\ failureNotified'[b] = failureNotified[b]
             /\ healthcheckFailureNotified'[b] = healthcheckFailureNotified[b]
             /\ _reconnectionRoutine'[b] = _reconnectionRoutine[b]
             /\ timers'[b] = timers[b]
             /\ alerts'[b] = alerts[b]]_vars
  /\ [](\A b \in Ids : st[b] = "connecting" => ENABLED StartupConnected(b))

\* Host B connected, went offline and is back in the registry while the first
\* connect attempt of host A, a different server, has not settled.
C20_Witness ==
  \E a, b \in Ids :
    /\ KMS_ARRAY[a] # KMS_ARRAY[b]
    /\ st[a] = "connecting"
    /\ last.op = "reconnectConnected" /\ last.d = b
    /\ hosts = <<b>>
    /\ Events(b) = <<"MEDIA_SERVER_OFFLINE", "MEDIA_SERVER_ONLINE">>

\* C21: after a disconnect the old client handle is discarded: no disconnect
\* or reconnected event that it delivers later deregisters the host, emits an
\* alert or starts a reconnection loop.
C21_OldHandleIsInert ==
  [][\A d \in Ids :
       (last'.d = d /\ last'.op \in {"staleDisconnect", "staleReconnected"})
       => UNCHANGED <<hosts, alerts, loopVars, failureNotified>>]_vars


\* C22: starting the health probe is idempotent.  A call of healthcheck for
\* a host whose probe timer runs, or of the FreeSWITCH wrapper's healthcheck
\* when its timer runs, starts no timer; so no host and no wrapper ever has
\* more than one probe timer.
C22_HealthcheckIdempotent ==
  /\ [](/\ \A d \in Ids : healthcheckerInterval[d] <= 1
        /\ esl.healthcheckerInterval <= 1)
  /\ [][/\ last'.op = "healthcheck" /\ last'.arg
             => UNCHANGED <<healthcheckerInterval, probes, probeTicks>>
        /\ last'.op = "eslHealthcheck" /\ last'.arg
             => esl'.healthcheckerInterval = esl.healthcheckerInterval]_vars

C22_Witness ==
  /\ last.op = "healthcheck" /\ last.arg
  /\ healthcheckerInterval[last.d] = 1
  /\ probeTicks[last.d] > 0
  /\ esl.healthcheckerInterval = 1


\* C23: for FreeSWITCH, whatever the order of auth errors, connection errors,
\* disconnect notices, end events, reconnection ticks, connected and
\* subscribed callbacks, the alerts are OFFLINE, ONLINE, OFFLINE, ... and an
\* OFFLINE is emitted exactly in the turns that set failureNotified.
C23_EslAlertsAlternate ==
  /\ [](\A i \in 1..Len(esl.alerts) :
          esl.alerts[i] = IF i % 2 = 1 THEN "MEDIA_SERVER_OFFLINE"
                                       ELSE "MEDIA_SERVER_ONLINE")
  /\ [][(esl'.alerts = Append(esl.alerts, "MEDIA_SERVER_OFFLINE"))
          <=> (~esl.failureNotified /\ esl'.failureNotified)]_vars

C23_Witness ==
  /\ last.op \in {"eslNotice", "eslReplacedEvent"}
  /\ esl.alerts = <<"MEDIA_SERVER_OFFLINE", "MEDIA_SERVER_ONLINE",
                    "MEDIA_SERVER_OFFLINE">>


\* C24: the FreeSWITCH wrapper has at most one armed reconnection timer, the
\* one in _reconnectionRoutine.  _onDisconnection arms a timer only when
\* none is set; _onConnected clears it and resets the field, so no timer
\* runs after a connected callback and a later disconnect arms a new one.
C24_EslOneTimer ==
  /\ [](/\ Cardinality(esl.timers) <= 1
        /\ esl.timers = IF esl._reconnectionRoutine = NoTimer
                        THEN {} ELSE {esl._reconnectionRoutine})
  /\ [][/\ esl.timers # {} /\ last'.op # "eslConnected"
             => esl'.timers = esl.timers
        /\ last'.op = "eslConnected"
             => esl'.timers = {} /\ esl'._reconnectionRoutine = NoTimer
        /\ (esl.timers = {} /\ last'.op \in {"eslAuthError", "eslError",
                                             "eslNotice", "eslReplacedEvent"})
             => esl'.timers = {esl.loopSeq + 1}]_vars

C24_Witness ==
  /\ last.op \in {"eslError", "eslNotice"}
  /\ esl.loopSeq = 2
  /\ esl.timers = {2}
  /\ esl.connected


\* C25: for FreeSWITCH, an error of the startup connect or of its
\* authentication arms the reconnection timer in the same turn.  No count
\* bounds the loop: every tick of the armed timer connects again, and only a
\* connected callback clears the timer, which it eventually does.  The
\* subscribed callback then emits MEDIA_SERVER_ONLINE exactly if an OFFLINE
\* was the latest alert.
C25_EslStartupFailureLoops ==
  /\ [][/\ last'.op \in {"eslAuthError", "eslError"}
             => esl'._reconnectionRoutine # NoTimer
        /\ last'.op = "eslTick"
             => esl'._client = "connecting" /\ esl'.timers = esl.timers
        /\ (esl._reconnectionRoutine # NoTimer
              /\ esl'._reconnectionRoutine = NoTimer)
             => last'.op = "eslConnected"
        /\ last'.op = "eslConnected" => esl'.timers = {}
        /\ last'.op \in {"eslSubscribed", "eslReplacedSubscribed"}
             => esl'.alerts =
                  IF esl.alerts # <<>>
                       /\ esl.alerts[Len(esl.alerts)] = "MEDIA_SERVER_OFFLINE"
                  THEN Append(esl.alerts, "MEDIA_SERVER_ONLINE")
                  ELSE esl.alerts]_vars
  /\ [](esl._reconnectionRoutine # NoTimer
          => ENABLED (EslTick(esl._reconnectionRoutine)))
  /\ (esl._reconnectionRoutine # NoTimer)
       ~> (last.op = "eslConnected" /\ esl.timers = {})
  /\ esl.failureNotified ~> ~esl.failureNotified

C25_Witness ==
  /\ last.op = "eslAuthError"
  /\ ~esl.connected
  /\ esl.loopSeq = 1 /\ esl.timers = {1}
  /\ esl.alerts = <<"MEDIA_SERVER_OFFLINE">>


\* C26: once a host's startup connect has completed, after every turn either
\* the host is in the registry (once) or a reconnection timer is set for its
\* id, never both and never neither.  A disconnect deregisters and arms in
\* one turn; every reconnect success, a repeated one of the same loop
\* included, clears the timer and leaves one registry entry in one turn.
C26_RegisteredXorReconnecting ==
  /\ [](\A d \in Ids :
          Monitored(d) => /\ Entries(d) <= 1
                          /\ (Entries(d) = 1) # Armed(d)
                          /\ timers[d] = IF Armed(d)
                                         THEN {_reconnectionRoutine[d]} ELSE {})
  /\ [][\A d \in Ids :
          last'.d = d =>
            /\ last'.op = "disconnect"
                 => Entries(d)' = 0 /\ Armed(d)'
            /\ last'.op = "reconnectConnected"
                 => Entries(d)' = 1 /\ ~Armed(d)' /\ timers'[d] = {}]_vars

C26_Witness ==
  \E d \in Ids :
    /\ last = Turn("reconnectConnected", d, TRUE, 1)
    /\ loopSeq[d] = 2
    /\ Entries(d) = 1 /\ ~Armed(d)


\* C27: once a host's startup connect has completed, after every turn
\* failureNotified is set exactly if the host is absent from the registry; so
\* whenever the host's latest alert is MEDIA_SERVER_ONLINE the host is
\* registered and no reconnection loop runs for it.
C27_FlagAgreesWithRegistry ==
  \A d \in Ids :
    Monitored(d) =>
      /\ failureNotified[d] <=> Entries(d) = 0
      /\ (Events(d) # <<>> /\ Events(d)[Len(Events(d))] = "MEDIA_SERVER_ONLINE")
           => Entries(d) = 1 /\ ~Armed(d)

====
